---- MODULE Spec2Model ----
(***************************************************************************)
(* A model of passerine's compiled chunk (common/lambda.rs) and of its     *)
(* hygienic macro rule engine (compiler/rule.rs).                          *)
(*                                                                         *)
(* Strings are sequences of characters, so that remove_tag and the         *)
(* "<base>#<stamp>" names of unique_tag are computed, not assumed.         *)
(***************************************************************************)
EXTENDS Integers, Sequences, FiniteSets, TLC

VARIABLES
    code,       \* Lambda.code: Vec<u8>
    spans,      \* Lambda.spans: Vec<(usize, Span)>
    constants,  \* Lambda.constants: Vec<Data>
    data,       \* argument of the last index_data call (NoData before any)
    ret,        \* index returned by the last index_data call (0-based)
    first,      \* for each Data value, the index returned by the first call on it
    query,      \* argument of the last index_span call, -1 after a mutation
    found,      \* position in spans (1-based) of the entry it returned, 0: Span::empty()
    arg_pat,        \* bind's arg_pat: &Spanned<ArgPattern>
    reversed_form,  \* bind's reversed_form: &mut Vec<Spanned<AST>>
    form,           \* the form as written (left to right) that was reversed for bind
    bind_out,       \* what bind returned: None, Some(Ok(bindings)) or Some(Err(syntax))
    base,           \* merge_safe's base: &mut Bindings
    new,            \* merge_safe's new: Bindings
    def,            \* merge_safe's def: Span
    merge_out,      \* what merge_safe returned: Ok(()) or Err(syntax)
    tree,           \* expand's tree: Spanned<AST>
    bindings,       \* expand's bindings: &mut Bindings
    called,         \* bindings as they were when expand was called
    expand_out,     \* what expand returned: Ok(tree) or Err(syntax), or its panic
    new_arg_pat,    \* Rule::new's arg_pat: Spanned<ArgPattern>
    new_tree,       \* Rule::new's tree: Spanned<AST>
    new_out,        \* what Rule::new returned: Ok(rule) or Err(syntax)
    trace,          \* a Trace: kind, message, spans
    pushed,         \* the spans of trace in the order they were pushed
    formatted,      \* what format!("{}", trace) last wrote, Pending after a push
    args,           \* main: the arguments after the program's name
    source,         \* main: `source`, a Result
    bytecode,       \* main: `bytecode`, a Result
    result,         \* main: `result`, a Result
    failed,         \* main: the step that failed first ("none" when none did)
    stderr,         \* main: what was written to the standard error stream
    exit_code,      \* main: the exit code of the process, -1 while it runs
    pc              \* main: the statement that runs next

lambdaVars == <<code, spans, constants, data, ret, first, query, found>>

bindVars == <<arg_pat, reversed_form, form, bind_out>>

mergeVars == <<base, new, def, merge_out>>

expandVars == <<tree, bindings, called, expand_out>>

ruleVars == <<bindVars, mergeVars, expandVars>>

newVars == <<new_arg_pat, new_tree, new_out>>

traceVars == <<trace, pushed, formatted>>

mainVars == <<args, source, bytecode, result, failed, stderr, exit_code, pc>>

otherVars == <<newVars, traceVars, mainVars>>

vars == <<lambdaVars, bindVars, mergeVars, expandVars, otherVars>>

(***************************************************************************)
(* Bounds.                                                                 *)
(***************************************************************************)
MaxCode == 3
MaxSpans == 2
MaxConstants == 5
NumInts == 3
MaxLeaves == 3
MaxForm == 3
MaxKeys == 2
MaxKids == 2
MaxTrace == 3

\* for tries in 0..1024
Tries == 1024

(***************************************************************************)
(* Lambda (common/lambda.rs).                                              *)
(***************************************************************************)

\* The bytes the compiler hands to emit and emit_bytes.
Bytes == {0, 5}

\* Span::empty(), and the spans handed to emit_span (which may be empty).
SpanEmpty == [source |-> "none", offset |-> 0, length |-> 0]

SpanValues == {SpanEmpty, [source |-> "src", offset |-> 4, length |-> 14]}

\* Data literals; equality is structural.
DataValues ==
    {[type |-> "Integer", val |-> i] : i \in 1..NumInts}
        \cup {[type |-> "String", val |-> "x"]}

NoData == [type |-> "none", val |-> 0]

ByteSeqs == {<<>>} \cup {<<b>> : b \in Bytes} \cup {<<b, c>> : b, c \in Bytes}

Offsets == 0..(MaxCode + 1)

\* Lambda::empty()
empty ==
    /\ code = <<>>
    /\ spans = <<>>
    /\ constants = <<>>

\* The loop of index_span: the position of `best` after scanning sp from
\* entry k on, 0 standing for the initial &Span::empty().
RECURSIVE span_scan(_, _, _, _)
span_scan(sp, index, k, b) ==
    IF k > Len(sp) THEN b
    ELSE IF sp[k].offset > index THEN b
    ELSE span_scan(sp, index, k + 1, k)

\* As span_scan, breaking on i >= index.
RECURSIVE span_scan_ge(_, _, _, _)
span_scan_ge(sp, index, k, b) ==
    IF k > Len(sp) THEN b
    ELSE IF sp[k].offset >= index THEN b
    ELSE span_scan_ge(sp, index, k + 1, k)

best_ge(sp, index) == span_scan_ge(sp, index, 1, 0)

\* As span_scan, without the break: the last entry wins.
best_last(sp, index) == Len(sp)

best(sp, index) == span_scan(sp, index, 1, 0)

\* The Span index_span returns.
span_of(sp, index) ==
    LET p == best(sp, index) IN IF p = 0 THEN SpanEmpty ELSE sp[p].span

\* constants.iter().position(|d| d == &data): 0-based, -1 for None.
position(cs, d) ==
    IF \E k \in 1..Len(cs) : cs[k] = d
    THEN (CHOOSE k \in 1..Len(cs) :
              cs[k] = d /\ \A j \in 1..(k - 1) : cs[j] # d) - 1
    ELSE -1

\* As data_index, but pushing without looking for an equal value.
data_index_push(cs, d) == [constants |-> Append(cs, d), index |-> Len(cs)]

\* The body of index_data: the constants afterwards and the index returned.
data_index(cs, d) ==
    LET p == position(cs, d) IN
    IF p # -1 THEN [constants |-> cs, index |-> p]
    ELSE [constants |-> Append(cs, d), index |-> Len(Append(cs, d)) - 1]

unqueried == query' = -1 /\ found' = 0

emit(op) ==
    /\ Len(code) < MaxCode
    /\ code' = Append(code, op)
    /\ unqueried
    /\ UNCHANGED <<spans, constants, data, ret, first, ruleVars, otherVars>>

emit_bytes(bytes) ==
    /\ Len(code) + Len(bytes) <= MaxCode
    /\ code' = code \o bytes
    /\ unqueried
    /\ UNCHANGED <<spans, constants, data, ret, first, ruleVars, otherVars>>

emit_span(span) ==
    /\ Len(spans) < MaxSpans
    /\ spans' = Append(spans, [offset |-> Len(code), span |-> span])
    /\ unqueried
    /\ UNCHANGED <<code, constants, data, ret, first, ruleVars, otherVars>>

\* Vec::pop on an empty vector returns None and changes nothing.
demit ==
    /\ code' = IF code = <<>> THEN code ELSE SubSeq(code, 1, Len(code) - 1)
    /\ unqueried
    /\ UNCHANGED <<spans, constants, data, ret, first, ruleVars, otherVars>>

index_data(d) ==
    /\ Len(constants) < MaxConstants
    /\ LET r == data_index(constants, d) IN
        /\ constants' = r.constants
        /\ ret' = r.index
        /\ data' = d
        /\ first' = IF first[d] = -1 THEN [first EXCEPT ![d] = r.index] ELSE first
    /\ UNCHANGED <<code, spans, query, found, ruleVars, otherVars>>

index_span(index) ==
    /\ query' = index
    /\ found' = best(spans, index)
    /\ UNCHANGED <<code, spans, constants, data, ret, first, ruleVars, otherVars>>

InitLambda ==
    /\ empty
    /\ data = NoData
    /\ ret = -1
    /\ first = [d \in DataValues |-> -1]
    /\ query = -1
    /\ found = 0

Emit == \E op \in Bytes : emit(op)

EmitBytes == \E bytes \in ByteSeqs : emit_bytes(bytes)

EmitSpan == \E span \in SpanValues : emit_span(span)

Demit == demit

IndexData == \E d \in DataValues : index_data(d)

IndexSpan == \E index \in Offsets : index_span(index)

(***************************************************************************)
(* Strings, spans and static errors.                                       *)
(***************************************************************************)

\* A String is the sequence of its characters.
Str1(c) == <<c>>

Tagged(b, stamp) == b \o <<"#">> \o stamp

\* A Span of the macro's source text.
Span(o, l) == [source |-> "src", offset |-> o, length |-> l]

\* Syntax::error(message, span)
SyntaxError(message, span) == [message |-> message, span |-> span]

NoError == [message |-> "", span |-> SpanEmpty]

(***************************************************************************)
(* Rule (compiler/rule.rs): merge_safe, remove_tag and bind.               *)
(***************************************************************************)

\* AST::Symbol(name) and AST::Data(val), each inside a Spanned.
Symbol(name, span) == [type |-> "Symbol", name |-> name, span |-> span]

Data(val, span) == [type |-> "Data", val |-> val, span |-> span]

\* ArgPattern::Keyword(name), ::Symbol(name) and ::Group(pats), Spanned.
ArgKeyword(name, span) == [type |-> "Keyword", name |-> name, span |-> span]

ArgSymbol(name, span) == [type |-> "ArgSymbol", name |-> name, span |-> span]

ArgGroup(pats, span) == [type |-> "ArgGroup", pats |-> pats, span |-> span]

\* HashMap::new()
EmptyBindings == [n \in {} |-> NoError]

\* bindings with name bound to t (the key is vacant or overwritten).
Insert(b, name, t) ==
    [n \in DOMAIN b \cup {name} |-> IF n = name THEN t ELSE b[n]]

\* base.split('#').collect::<Vec<&str>>()[0]: what precedes the first '#'.
remove_tag(b) ==
    LET hashes == {i \in 1..Len(b) : b[i] = "#"} IN
    IF hashes = {} THEN b
    ELSE SubSeq(b, 1, (CHOOSE i \in hashes : \A j \in hashes : i <= j) - 1)

\* The collision error merge_safe builds before its loop.
collision(d) ==
    SyntaxError(
        "Variable has already been declared in syntactic macro argument pattern", d)

\* The loop of merge_safe over `new`, in the iteration order `order` of the
\* HashMap, from its k-th entry on: the error returned, and base afterwards.
RECURSIVE merge_loop(_, _, _, _, _)
merge_loop(b, nw, d, order, k) ==
    IF k > Len(order) THEN [err |-> NoError, base |-> b]
    ELSE IF order[k] \in DOMAIN b THEN [err |-> collision(d), base |-> b]
    ELSE merge_loop(Insert(b, order[k], nw[order[k]]), nw, d, order, k + 1)

\* As merge_loop, an occupied entry being overwritten instead of reported.
RECURSIVE merge_loop_overwrite(_, _, _, _, _)
merge_loop_overwrite(b, nw, d, order, k) ==
    IF k > Len(order) THEN [err |-> NoError, base |-> b]
    ELSE merge_loop_overwrite(Insert(b, order[k], nw[order[k]]), nw, d, order, k + 1)

merge_safe_overwrite(b, nw, d, order) == merge_loop_overwrite(b, nw, d, order, 1)

\* As merge_safe, the error carrying no span.
merge_safe_nospan(b, nw, d, order) == merge_loop(b, nw, SpanEmpty, order, 1)

merge_safe(b, nw, d, order) == merge_loop(b, nw, d, order, 1)

\* One iteration order of a HashMap with the keys S.
RECURSIVE KeyOrder(_)
KeyOrder(S) ==
    IF S = {} THEN <<>>
    ELSE LET n == CHOOSE n \in S : TRUE IN <<n>> \o KeyOrder(S \ {n})

\* Every iteration order of a HashMap with the keys S.
KeyOrders(S) ==
    {o \in [1..Cardinality(S) -> S] : \A n \in S : \E i \in DOMAIN o : o[i] = n}

\* As pop, taking the first element.
pop_front(v) == [node |-> v[1], rest |-> SubSeq(v, 2, Len(v))]

\* As pop, the element being left in the vector.
pop_peek(v) == [node |-> v[Len(v)], rest |-> v]

\* Vec::pop on a non-empty vector: the last element, and the vector left.
pop(v) == [node |-> v[Len(v)], rest |-> SubSeq(v, 1, Len(v) - 1)]

\* What bind returns.
None == [tag |-> "None"]

SomeOk(b) == [tag |-> "Ok", bindings |-> b]

SomeErr(e) == [tag |-> "Err", err |-> e]

\* bind(arg_pat, reversed_form): the value returned (out) and reversed_form
\* afterwards (form). bind_group is the loop of the Group arm from the k-th
\* sub-pattern on, `b` being its `bindings`.
RECURSIVE bind(_, _), bind_group(_, _, _, _)
bind(pat, rf) ==
    CASE pat.type = "Keyword" ->
            IF rf = <<>> THEN [out |-> None, form |-> rf]
            ELSE LET p == pop(rf) IN
                 IF p.node.type = "Symbol" /\ remove_tag(p.node.name) = pat.name
                 THEN [out |-> SomeOk(EmptyBindings), form |-> p.rest]
                 ELSE [out |-> None, form |-> p.rest]
      [] pat.type = "ArgSymbol" ->
            IF rf = <<>> THEN [out |-> None, form |-> rf]
            ELSE LET p == pop(rf) IN
                 [out |-> SomeOk(Insert(EmptyBindings, pat.name, p.node)),
                  form |-> p.rest]
      [] pat.type = "ArgGroup" -> bind_group(pat.pats, 1, EmptyBindings, rf)

bind_group(pats, k, b, rf) ==
    IF k > Len(pats) THEN [out |-> SomeOk(b), form |-> rf]
    ELSE LET r == bind(pats[k], rf) IN
         IF r.out.tag # "Ok" THEN r
         ELSE LET m == merge_safe(b, r.out.bindings, pats[k].span,
                                  KeyOrder(DOMAIN r.out.bindings)) IN
              IF m.err # NoError THEN [out |-> SomeErr(m.err), form |-> r.form]
              ELSE bind_group(pats, k + 1, m.base, r.form)

(***************************************************************************)
(* Rule (compiler/rule.rs): keywords and Rule::new.                        *)
(***************************************************************************)

\* As keywords, a Group yielding nothing: only a bare Keyword is seen.
keywords_top(pat) == IF pat.type = "Keyword" THEN <<pat.name>> ELSE <<>>

\* keywords(arg_pat): the Vec<String> returned. keywords_of is the loop of
\* the Group arm from the k-th sub-pattern on, `ks` being its `keywords`.
RECURSIVE keywords(_), keywords_of(_, _, _)
keywords(pat) ==
    CASE pat.type = "ArgGroup" -> keywords_of(pat.pats, 1, <<>>)
      [] pat.type = "Keyword" -> <<pat.name>>
      [] OTHER -> <<>>

keywords_of(pats, k, ks) ==
    IF k > Len(pats) THEN ks
    ELSE keywords_of(pats, k + 1, ks \o keywords(pats[k]))

\* Rule { arg_pat, tree }
Rule(pat, t) == [arg_pat |-> pat, tree |-> t]

NoPseudokeyword == "Syntactic macro must have at least one pseudokeyword"

\* Rule::new(arg_pat, tree)
rule_new(pat, t) ==
    IF keywords(pat) = <<>>
    THEN [tag |-> "Err", err |-> SyntaxError(NoPseudokeyword, pat.span)]
    ELSE [tag |-> "Ok", rule |-> Rule(pat, t)]

(***************************************************************************)
(* Rule (compiler/rule.rs): unique_tag, resolve_symbol and expand.         *)
(***************************************************************************)

\* The variants of AST other than Symbol and Data, each inside a Spanned.
Block(forms, span) == [type |-> "Block", forms |-> forms, span |-> span]

Form(branches, span) == [type |-> "Form", branches |-> branches, span |-> span]

Group(expression, span) ==
    [type |-> "Group", expression |-> expression, span |-> span]

Composition(argument, function, span) ==
    [type |-> "Composition", argument |-> argument, function |-> function,
     span |-> span]

\* AST::CSTPattern and AST::ArgPattern hold a bare pattern: its span is
\* the span of the node.
CSTPattern(pattern, span) ==
    [type |-> "CSTPattern", pattern |-> [pattern EXCEPT !.span = span],
     span |-> span]

ArgPattern(pat, span) ==
    [type |-> "ArgPattern", arg_pat |-> [pat EXCEPT !.span = span], span |-> span]

Assign(pattern, expression, span) ==
    [type |-> "Assign", pattern |-> pattern, expression |-> expression,
     span |-> span]

Lambda(pattern, expression, span) ==
    [type |-> "Lambda", pattern |-> pattern, expression |-> expression,
     span |-> span]

Label(kind, expression, span) ==
    [type |-> "Label", kind |-> kind, expression |-> expression, span |-> span]

Tuple(tuple, span) == [type |-> "Tuple", tuple |-> tuple, span |-> span]

Syntax(pat, expression, span) ==
    [type |-> "Syntax", arg_pat |-> pat, expression |-> expression, span |-> span]

FFI(name, expression, span) ==
    [type |-> "FFI", name |-> name, expression |-> expression, span |-> span]

\* The variants of ASTPattern, each inside a Spanned.
PatSymbol(name, span) == [type |-> "PatSymbol", name |-> name, span |-> span]

PatData(val, span) == [type |-> "PatData", val |-> val, span |-> span]

PatLabel(name, pattern, span) ==
    [type |-> "PatLabel", name |-> name, pattern |-> pattern, span |-> span]

PatChain(chain, span) == [type |-> "PatChain", chain |-> chain, span |-> span]

PatTuple(tuple, span) == [type |-> "PatTuple", tuple |-> tuple, span |-> span]

\* Spanned::build: the span that covers the spans of the items.
SpanBuild(items) ==
    IF items = <<>> THEN SpanEmpty
    ELSE LET lo == CHOOSE o \in {items[i].span.offset : i \in 1..Len(items)} :
                       \A i \in 1..Len(items) : o <= items[i].span.offset
             hi == CHOOSE e \in {items[i].span.offset + items[i].span.length :
                                    i \in 1..Len(items)} :
                       \A i \in 1..Len(items) :
                           e >= items[i].span.offset + items[i].span.length
         IN Span(lo, hi - lo)

\* ASTPattern::try_from(AST): a Symbol or a Data is a pattern, a Block is not.
NotAPattern == "Unexpected construct inside pattern"

ast_pattern_try_from(t) ==
    CASE t.type = "Symbol" -> [err |-> "", item |-> PatSymbol(t.name, t.span)]
      [] t.type = "Data" -> [err |-> "", item |-> PatData(t.val, t.span)]
      [] OTHER -> [err |-> NotAPattern, item |-> t]

\* ArgPattern::try_from(AST): only a Symbol is an argument pattern here.
NotAnArgPattern == "Unexpected construct inside argument pattern"

arg_pattern_try_from(t) ==
    CASE t.type = "Symbol" -> [err |-> "", item |-> ArgSymbol(t.name, t.span)]
      [] OTHER -> [err |-> NotAnArgPattern, item |-> t]

\* The tokens stamp can return.
StampChars == <<"1", "2">>

\* stamp(tries): a random-looking token; the clock it hashes is the seed.
stamp(seed, tries) == Str1(StampChars[((seed + tries) % Len(StampChars)) + 1])

\* As unique_tag, returning the first try without looking into bindings.
unique_tag_unchecked(b, bs, seed) == [tag |-> "Ok", name |-> Tagged(b, stamp(seed, 0))]

\* unique_tag(base, bindings): the first "<base>#<stamp>" over the tries
\* that is no key of bindings; it panics when every try is one.
unique_tag(b, bs, seed) ==
    IF \E t \in 0..(Tries - 1) : Tagged(b, stamp(seed, t)) \notin DOMAIN bs
    THEN LET t == CHOOSE t \in 0..(Tries - 1) :
                      /\ Tagged(b, stamp(seed, t)) \notin DOMAIN bs
                      /\ \A u \in 0..(t - 1) : Tagged(b, stamp(seed, u)) \in DOMAIN bs
         IN [tag |-> "Ok", name |-> Tagged(b, stamp(seed, t))]
    ELSE [tag |-> "Panic", name |-> b]

\* What expand and its helpers return, with the bindings left behind and
\* the number of stamps drawn so far.
ExpOk(t, st) ==
    [tag |-> "Ok", tree |-> t, err |-> NoError, bindings |-> st.bindings, n |-> st.n]

ExpErr(e, st) ==
    [tag |-> "Err", tree |-> <<>>, err |-> e, bindings |-> st.bindings, n |-> st.n]

ExpPanic(st) ==
    [tag |-> "Panic", tree |-> <<>>, err |-> NoError, bindings |-> st.bindings,
     n |-> st.n]

St(r) == [bindings |-> r.bindings, n |-> r.n]

\* As resolve_symbol, without recording the generated symbol in bindings.
resolve_symbol_forget(name, span, st, seeds) ==
    IF name \in DOMAIN st.bindings THEN ExpOk(st.bindings[name], st)
    ELSE LET u == unique_tag(name, st.bindings, seeds[st.n + 1]) IN
         IF u.tag = "Panic" THEN ExpPanic(st)
         ELSE ExpOk(Symbol(u.name, span), [bindings |-> st.bindings, n |-> st.n + 1])

\* resolve_symbol(name, span, bindings)
resolve_symbol(name, span, st, seeds) ==
    IF name \in DOMAIN st.bindings THEN ExpOk(st.bindings[name], st)
    ELSE LET u == unique_tag(name, st.bindings, seeds[st.n + 1]) IN
         IF u.tag = "Panic" THEN ExpPanic(st)
         ELSE ExpOk(Symbol(u.name, span),
                    [bindings |-> Insert(st.bindings, name, Symbol(u.name, span)),
                     n |-> st.n + 1])

\* Rule::resolve_symbol(..).map(try_from).map_err(|s| Syntax::error(&s, &span))?
coerced(r, c, span) ==
    IF r.tag # "Ok" THEN r
    ELSE IF c.err # "" THEN ExpErr(SyntaxError(c.err, span), St(r))
    ELSE ExpOk(c.item, St(r))

\* expand_pattern, and its map over a chain or a tuple from item k on.
RECURSIVE expand_pattern(_, _, _), expand_patterns(_, _, _, _, _)
expand_pattern(pattern, st, seeds) ==
    CASE pattern.type = "PatSymbol" ->
            LET r == resolve_symbol(pattern.name, pattern.span, st, seeds) IN
            coerced(r, ast_pattern_try_from(r.tree), pattern.span)
      [] pattern.type = "PatData" -> ExpOk(pattern, st)
      [] pattern.type = "PatLabel" ->
            LET r == expand_pattern(pattern.pattern, st, seeds) IN
            IF r.tag # "Ok" THEN r
            ELSE ExpOk(PatLabel(pattern.name, r.tree, pattern.pattern.span), St(r))
      [] pattern.type = "PatChain" ->
            LET r == expand_patterns(pattern.chain, 1, <<>>, st, seeds) IN
            IF r.tag # "Ok" THEN r
            ELSE ExpOk(PatChain(r.tree, SpanBuild(pattern.chain)), St(r))
      [] pattern.type = "PatTuple" ->
            LET r == expand_patterns(pattern.tuple, 1, <<>>, st, seeds) IN
            IF r.tag # "Ok" THEN r
            ELSE ExpOk(PatTuple(r.tree, SpanBuild(pattern.tuple)), St(r))

expand_patterns(items, k, done, st, seeds) ==
    IF k > Len(items) THEN ExpOk(done, st)
    ELSE LET r == expand_pattern(items[k], st, seeds) IN
         IF r.tag # "Ok" THEN r
         ELSE expand_patterns(items, k + 1, Append(done, r.tree), St(r), seeds)

\* expand_arg_pat, and its map over the sub-patterns of a Group.
RECURSIVE expand_arg_pat(_, _, _), expand_arg_pats(_, _, _, _, _)
expand_arg_pat(pat, st, seeds) ==
    CASE pat.type = "Keyword" -> ExpOk(pat, st)
      [] pat.type = "ArgSymbol" ->
            LET r == resolve_symbol(pat.name, pat.span, st, seeds) IN
            coerced(r, arg_pattern_try_from(r.tree), pat.span)
      [] pat.type = "ArgGroup" ->
            LET r == expand_arg_pats(pat.pats, 1, <<>>, st, seeds) IN
            IF r.tag # "Ok" THEN r
            ELSE ExpOk(ArgGroup(r.tree, SpanBuild(pat.pats)), St(r))

expand_arg_pats(items, k, done, st, seeds) ==
    IF k > Len(items) THEN ExpOk(done, st)
    ELSE LET r == expand_arg_pat(items[k], st, seeds) IN
         IF r.tag # "Ok" THEN r
         ELSE expand_arg_pats(items, k + 1, Append(done, r.tree), St(r), seeds)

NestedMacros == "Nested macros are not allowed yet"

\* As nested_macro, the node being let through.
nested_macro_allowed(t, st) == ExpOk(t, st)

\* The Syntax arm of expand once both sides have been expanded.
nested_macro(t, st) == ExpErr(SyntaxError(NestedMacros, t.span), st)

\* expand(tree, bindings), and its map over forms, branches or a tuple.
RECURSIVE expand(_, _, _), expand_all(_, _, _, _, _)
expand(t, st, seeds) ==
    CASE t.type = "Symbol" -> resolve_symbol(t.name, t.span, st, seeds)
      [] t.type = "Data" -> ExpOk(t, st)
      [] t.type = "Block" ->
            LET r == expand_all(t.forms, 1, <<>>, st, seeds) IN
            IF r.tag # "Ok" THEN r ELSE ExpOk(Block(r.tree, t.span), St(r))
      [] t.type = "Form" ->
            LET r == expand_all(t.branches, 1, <<>>, st, seeds) IN
            IF r.tag # "Ok" THEN r ELSE ExpOk(Form(r.tree, t.span), St(r))
      [] t.type = "Group" ->
            LET r == expand(t.expression, st, seeds) IN
            IF r.tag # "Ok" THEN r ELSE ExpOk(Group(r.tree, t.span), St(r))
      [] t.type = "Composition" ->
            LET a == expand(t.argument, st, seeds) IN
            IF a.tag # "Ok" THEN a
            ELSE LET f == expand(t.function, St(a), seeds) IN
                 IF f.tag # "Ok" THEN f
                 ELSE ExpOk(Composition(a.tree, f.tree, t.span), St(f))
      [] t.type = "CSTPattern" ->
            LET r == expand_pattern(t.pattern, st, seeds) IN
            IF r.tag # "Ok" THEN r ELSE ExpOk(CSTPattern(r.tree, t.span), St(r))
      [] t.type = "ArgPattern" ->
            LET r == expand_arg_pat(t.arg_pat, st, seeds) IN
            IF r.tag # "Ok" THEN r ELSE ExpOk(ArgPattern(r.tree, t.span), St(r))
      [] t.type \in {"Assign", "Lambda"} ->
            LET p == expand_pattern(t.pattern, st, seeds) IN
            IF p.tag # "Ok" THEN p
            ELSE LET e == expand(t.expression, St(p), seeds) IN
                 IF e.tag # "Ok" THEN e
                 ELSE IF t.type = "Assign"
                      THEN ExpOk(Assign(p.tree, e.tree, t.span), St(e))
                      ELSE ExpOk(Lambda(p.tree, e.tree, t.span), St(e))
      [] t.type = "Label" ->
            LET r == expand(t.expression, st, seeds) IN
            IF r.tag # "Ok" THEN r ELSE ExpOk(Label(t.kind, r.tree, t.span), St(r))
      [] t.type = "Tuple" ->
            LET r == expand_all(t.tuple, 1, <<>>, st, seeds) IN
            IF r.tag # "Ok" THEN r ELSE ExpOk(Tuple(r.tree, t.span), St(r))
      [] t.type = "Syntax" ->
            LET ap == expand_arg_pat(t.arg_pat, st, seeds) IN
            IF ap.tag # "Ok" THEN ap
            ELSE LET e == expand(t.expression, St(ap), seeds) IN
                 IF e.tag # "Ok" THEN e ELSE nested_macro(t, St(e))
      [] t.type = "FFI" ->
            LET r == expand(t.expression, st, seeds) IN
            IF r.tag # "Ok" THEN r ELSE ExpOk(FFI(t.name, r.tree, t.span), St(r))

expand_all(items, k, done, st, seeds) ==
    IF k > Len(items) THEN ExpOk(done, st)
    ELSE LET r == expand(items[k], st, seeds) IN
         IF r.tag # "Ok" THEN r
         ELSE expand_all(items, k + 1, Append(done, r.tree), St(r), seeds)

(***************************************************************************)
(* Diagnostics (compiler/syntax.rs, vm/trace.rs) and their formatting.     *)
(* What is written to a formatter is the sequence of the pieces written.   *)
(***************************************************************************)

\* A piece of text, and the excerpt of the source that Display writes for a
\* Span.
Text(str) == [piece |-> "text", text |-> str, span |-> SpanEmpty]

Excerpt(span) == [piece |-> "excerpt", text |-> "", span |-> span]

display_span(span) == <<Excerpt(span)>>

\* Span::is_empty
is_empty(span) == span.length = 0

\* impl Display for Syntax
fmt_syntax(e) ==
    (IF ~is_empty(e.span) THEN display_span(e.span) ELSE <<>>)
        \o <<Text("Syntax Error: "), Text(e.message)>>

\* Trace::error(kind, message, spans)
trace_error(kind, message, sp) == [kind |-> kind, message |-> message, spans |-> sp]

\* self.spans.push(span)
push_span(t, span) == [t EXCEPT !.spans = Append(@, span)]

Traceback == "Traceback, most recent call last:"

\* for span in self.spans.iter().rev() { fmt::Display::fmt(span, f)?; }
\* from the k-th span down to the first.
RECURSIVE display_rev(_, _)
display_rev(sp, k) ==
    IF k = 0 THEN <<>> ELSE display_span(sp[k]) \o display_rev(sp, k - 1)

\* As display_rev, from the k-th span up to the last.
RECURSIVE display_fwd(_, _)
display_fwd(sp, k) ==
    IF k > Len(sp) THEN <<>> ELSE display_span(sp[k]) \o display_fwd(sp, k + 1)

\* As display_spans, in the order of the vector.
display_spans_fwd(sp) == display_fwd(sp, 1)

\* The spans of a Trace as fmt writes them.
display_spans(sp) == display_rev(sp, Len(sp))

\* impl Display for Trace
fmt_trace(t) ==
    <<Text(Traceback), Text("\n")>>
        \o display_spans(t.spans)
        \o <<Text("Runtime "), Text(t.kind), Text(" Error: "), Text(t.message)>>

(***************************************************************************)
(* The inputs of bind and merge_safe.                                      *)
(***************************************************************************)

\* The leaves of an argument pattern, before their spans are set.
PatLeaves ==
    {ArgKeyword(Str1("t"), SpanEmpty),
     ArgSymbol(Str1("a"), SpanEmpty),
     ArgSymbol(Str1("b"), SpanEmpty)}

\* The nodes of a form, before their spans are set.
FormNodes ==
    {Symbol(Str1("t"), SpanEmpty),
     Symbol(Tagged(Str1("t"), Str1("1")), SpanEmpty),
     Symbol(Str1("x"), SpanEmpty),
     Data(1, SpanEmpty)}

SeqsUpTo(S, n) == UNION {[1..k -> S] : k \in 0..n}

Reverse(v) == [i \in 1..Len(v) |-> v[Len(v) + 1 - i]]

\* The k-th node of a sequence sits at offset k of the source.
Placed(v) == [k \in 1..Len(v) |-> [v[k] EXCEPT !.span = Span(k, 1)]]

\* The argument pattern with the leaves ls, the leaves lo..hi being wrapped
\* in a nested Group (an empty one when hi = lo - 1).
Nested(ls, lo, hi) ==
    LET pl == Placed(ls) IN
    ArgGroup(SubSeq(pl, 1, lo - 1)
                 \o <<ArgGroup(SubSeq(pl, lo, hi), Span(lo, hi + 1 - lo))>>
                 \o SubSeq(pl, hi + 1, Len(pl)),
             Span(1, Len(pl)))

\* The argument patterns over the leaves ls: the flat Group, the Groups
\* with one nested Group, and a bare leaf.
PatternsOver(ls) ==
    {ArgGroup(Placed(ls), Span(1, Len(ls)))}
        \cup {Nested(ls, seg[1], seg[2]) :
                 seg \in {sg \in (1..(Len(ls) + 1)) \X (0..Len(ls)) :
                              sg[2] >= sg[1] - 1}}
        \cup (IF Len(ls) = 1 THEN {Placed(ls)[1]} ELSE {})

\* Bindings with at most MaxKeys keys.
BindingsOver(names, trees) ==
    UNION {[K -> trees] : K \in {K \in SUBSET names : Cardinality(K) <= MaxKeys}}

MergeNames == {Str1("a"), Str1("b"), Str1("c")}

MergeTrees == {Symbol(Str1("x"), Span(1, 1)), Data(1, Span(2, 1))}

MergeSpans == {Span(3, 1), SpanEmpty}

Pending == [tag |-> "Pending"]

IdleBind ==
    /\ arg_pat = ArgGroup(<<>>, SpanEmpty)
    /\ reversed_form = <<>>
    /\ form = <<>>
    /\ bind_out = Pending

IdleMerge ==
    /\ base = EmptyBindings
    /\ new = EmptyBindings
    /\ def = SpanEmpty
    /\ merge_out = Pending

IdleLambda == InitLambda

\* A rule's pattern and a form, reversed by the caller of bind.
InitBind ==
    /\ \E ls \in SeqsUpTo(PatLeaves, MaxLeaves) : arg_pat \in PatternsOver(ls)
    /\ \E f \in SeqsUpTo(FormNodes, MaxForm) :
        /\ form = Placed(f)
        /\ reversed_form = Reverse(Placed(f))
    /\ bind_out = Pending

Bind ==
    /\ bind_out = Pending
    /\ LET r == bind(arg_pat, reversed_form) IN
        /\ bind_out' = r.out
        /\ reversed_form' = r.form
    /\ UNCHANGED <<arg_pat, form>>
    /\ UNCHANGED <<lambdaVars, mergeVars, expandVars, otherVars>>

InitMerge ==
    /\ base \in BindingsOver(MergeNames, MergeTrees)
    /\ new \in BindingsOver(MergeNames, MergeTrees)
    /\ def \in MergeSpans
    /\ merge_out = Pending

MergeSafe ==
    /\ merge_out = Pending
    /\ \E order \in KeyOrders(DOMAIN new) :
        LET m == merge_safe(base, new, def, order) IN
        /\ base' = m.base
        /\ merge_out' = IF m.err = NoError THEN [tag |-> "Ok"] ELSE SomeErr(m.err)
    /\ UNCHANGED <<new, def>>
    /\ UNCHANGED <<lambdaVars, bindVars, expandVars, otherVars>>

(***************************************************************************)
(* The inputs of expand.                                                   *)
(***************************************************************************)

At(node, k) == [node EXCEPT !.span = Span(k, 1)]

\* The names a macro body uses, one of them tagged by an earlier expansion.
ExpNames == {Str1("a"), Str1("b"), Tagged(Str1("a"), Str1("1"))}

ExpLeaves ==
    {Symbol(n, SpanEmpty) : n \in ExpNames} \cup {Data(1, SpanEmpty)}

PatSymbols == {PatSymbol(Str1(c), SpanEmpty) : c \in {"a", "b"}}

\* ASTPatterns: a leaf, a labelled leaf, a chain or a tuple of symbols.
Patterns ==
    PatSymbols \cup {PatData(1, SpanEmpty)}
        \cup {PatLabel(Str1("L"), At(q, 2), Span(1, 2)) :
                 q \in PatSymbols \cup {PatData(1, SpanEmpty)}}
        \cup {PatChain(Placed(v), Span(1, Len(v))) : v \in SeqsUpTo(PatSymbols, MaxKids)}
        \cup {PatTuple(Placed(v), Span(1, Len(v))) : v \in SeqsUpTo(PatSymbols, MaxKids)}

\* ArgPatterns: a leaf or a flat Group of leaves.
ArgPatterns ==
    PatLeaves
        \cup {ArgGroup(Placed(v), Span(1, Len(v))) : v \in SeqsUpTo(PatLeaves, MaxKids)}

\* The trees with leaves for children.
Trees1 ==
    ExpLeaves
        \cup {Group(At(l, 1), Span(1, 1)) : l \in ExpLeaves}
        \cup {Label(Str1("K"), At(l, 2), Span(1, 2)) : l \in ExpLeaves}
        \cup {FFI(Str1("f"), At(l, 2), Span(1, 2)) : l \in ExpLeaves}
        \cup {Composition(At(x, 1), At(y, 2), Span(1, 2)) : x, y \in ExpLeaves}
        \cup {Block(Placed(v), Span(1, Len(v))) : v \in SeqsUpTo(ExpLeaves, MaxKids)}
        \cup {Form(Placed(v), Span(1, Len(v))) : v \in SeqsUpTo(ExpLeaves, MaxKids)}
        \cup {Tuple(Placed(v), Span(1, Len(v))) : v \in SeqsUpTo(ExpLeaves, MaxKids)}
        \cup {CSTPattern(q, Span(1, 1)) : q \in Patterns}
        \cup {ArgPattern(q, Span(1, 1)) : q \in ArgPatterns}
        \cup {Assign(At(q, 1), At(l, 2), Span(1, 2)) : q \in Patterns, l \in ExpLeaves}
        \cup {Lambda(At(q, 1), At(l, 2), Span(1, 2)) : q \in Patterns, l \in ExpLeaves}
        \cup {Syntax(At(q, 1), At(l, 2), Span(1, 2)) : q \in ArgPatterns, l \in ExpLeaves}

\* A macro body: a tree of Trees1, alone, in a Group, or in a Block before
\* or after a leaf.
Trees ==
    Trees1
        \cup {Group(At(x, 1), Span(1, 1)) : x \in Trees1}
        \cup {Block(<<At(x, 1), At(l, 2)>>, Span(1, 2)) : x \in Trees1, l \in ExpLeaves}
        \cup {Block(<<At(l, 1), At(x, 2)>>, Span(1, 2)) : x \in Trees1, l \in ExpLeaves}

\* The names bound when expand is called, and the trees bound to them: a
\* symbol of the caller that an earlier expansion tagged, and a block.
BoundNames == ExpNames

BoundTrees ==
    {Symbol(Tagged(Str1("x"), Str1("1")), Span(7, 1)), Block(<<>>, Span(8, 0))}

\* The clock seen by each call of unique_tag.
Seeds == [1..Cardinality(ExpNames) -> 0..(Len(StampChars) - 1)]

IdleExpand ==
    /\ tree = Data(1, SpanEmpty)
    /\ bindings = EmptyBindings
    /\ called = EmptyBindings
    /\ expand_out = Pending

InitExpand ==
    /\ tree \in Trees
    /\ bindings \in BindingsOver(BoundNames, BoundTrees)
    /\ called = bindings
    /\ expand_out = Pending

Expand ==
    /\ expand_out = Pending
    /\ \E seeds \in Seeds :
        LET r == expand(tree, [bindings |-> bindings, n |-> 0], seeds) IN
        /\ bindings' = r.bindings
        /\ expand_out' = [tag |-> r.tag, tree |-> r.tree, err |-> r.err]
    /\ UNCHANGED <<tree, called>>
    /\ UNCHANGED <<lambdaVars, bindVars, mergeVars, otherVars>>

(***************************************************************************)
(* The inputs of Rule::new.                                                *)
(***************************************************************************)

\* The leaves of a rule's pattern: two pseudokeywords and two symbols.
NewLeaves == PatLeaves \cup {ArgKeyword(Str1("u"), SpanEmpty)}

\* The bodies given to Rule::new.
NewTrees == {Symbol(Str1("a"), Span(9, 1)), Block(<<>>, Span(9, 0))}

IdleNew ==
    /\ new_arg_pat = ArgGroup(<<>>, SpanEmpty)
    /\ new_tree = Data(1, SpanEmpty)
    /\ new_out = Pending


InitNew ==
    /\ \E ls \in SeqsUpTo(NewLeaves, MaxLeaves) : new_arg_pat \in PatternsOver(ls)
    /\ new_tree \in NewTrees
    /\ new_out = Pending

New ==
    /\ new_out = Pending
    /\ new_out' = rule_new(new_arg_pat, new_tree)
    /\ UNCHANGED <<new_arg_pat, new_tree>>
    /\ UNCHANGED <<lambdaVars, ruleVars, traceVars, mainVars>>

(***************************************************************************)
(* The inputs of a Trace.                                                  *)
(***************************************************************************)

TraceKinds == {"Type", "Arity"}

TraceMessages == {"Can't add Label to Label", "Too many arguments"}

\* Spans of calls in the source run.
TraceSpans == {Span(12, 5), Span(34, 8), Span(77, 12)}

IdleTrace ==
    /\ trace = trace_error("", "", <<>>)
    /\ pushed = <<>>
    /\ formatted = Pending

\* Trace::error(kind, message, spans): the spans given count as pushed in
\* the order of the vector.
InitTrace ==
    /\ \E kind \in TraceKinds, message \in TraceMessages,
          sp \in SeqsUpTo(TraceSpans, MaxTrace - 1) :
        /\ trace = trace_error(kind, message, sp)
        /\ pushed = sp
    /\ formatted = Pending

add_context(span) ==
    /\ Len(trace.spans) < MaxTrace
    /\ trace' = push_span(trace, span)
    /\ pushed' = Append(pushed, span)
    /\ formatted' = Pending
    /\ UNCHANGED <<lambdaVars, ruleVars, newVars, mainVars>>

AddContext == \E span \in TraceSpans : add_context(span)

\* format!("{}", trace)
Format ==
    /\ formatted = Pending
    /\ formatted' = [tag |-> "Written", out |-> fmt_trace(trace)]
    /\ UNCHANGED <<trace, pushed>>
    /\ UNCHANGED <<lambdaVars, ruleVars, newVars, mainVars>>

(***************************************************************************)
(* The command-line driver (main.rs).                                      *)
(***************************************************************************)

\* Result values.
Ok(v) == [tag |-> "Ok", val |-> v, err |-> <<>>]

Err(e) == [tag |-> "Err", val |-> "", err |-> e]

Unset == [tag |-> "Unset", val |-> "", err |-> <<>>]

\* r.map_err(f) and r.and_then(f), f's outcome being `next`.
and_then(r, next) == IF r.tag = "Ok" THEN next ELSE r

\* The exit code of a process whose main returned, and of one whose main
\* thread panicked.
ExitReturned == 0
ExitPanicked == 101

Paths == {"a.pn", "b.pn", "c.pn"}

\* The files Source::path may find at a path.
Sources == {"x = 1", "forever RandomLabel"}

\* The static errors compile may return: one with a span, one without.
CompileErrors ==
    {SyntaxError("Unexpected token", Span(4, 14)),
     SyntaxError(NoPseudokeyword, SpanEmpty)}

\* The runtime errors run may return.
RunErrors ==
    {trace_error("Type", "Can't add Label to Label", <<Span(12, 5)>>),
     trace_error("Type", "Can't add Label to Label", <<Span(12, 5), Span(34, 8)>>),
     trace_error("Arity", "Too many arguments", <<Span(77, 12)>>)}

\* std::env::args_os(): no argument, or a path.
InitMain ==
    /\ args \in {<<>>} \cup {<<path>> : path \in Paths}
    /\ source = Unset
    /\ bytecode = Unset
    /\ result = Unset
    /\ failed = "none"
    /\ stderr = <<>>
    /\ exit_code = -1
    /\ pc = "read"

IdleMain ==
    /\ args = <<>>
    /\ source = Unset
    /\ bytecode = Unset
    /\ result = Unset
    /\ failed = "none"
    /\ stderr = <<>>
    /\ exit_code = -1
    /\ pc = "idle"

IdleOther == IdleNew /\ IdleTrace /\ IdleMain

\* let path = args_os().nth(1).expect("Usage: <path>"): without an argument
\* the thread panics, the message goes to the standard error stream.
Usage ==
    /\ pc = "read"
    /\ args = <<>>
    /\ stderr' = Append(stderr, <<Text("Usage: <path>")>>)
    /\ exit_code' = ExitPanicked
    /\ failed' = "usage"
    /\ pc' = "exited"
    /\ UNCHANGED <<args, source, bytecode, result>>
    /\ UNCHANGED <<lambdaVars, ruleVars, newVars, traceVars>>

\* let source = Source::path(path).map_err(|_| "Error: File could not be read")
ReadFile ==
    /\ pc = "read"
    /\ args # <<>>
    /\ \E r \in {Ok(s) : s \in Sources}
                  \cup {Err(<<Text("Error: File could not be read")>>)} :
        /\ source' = r
        /\ failed' = IF r.tag = "Err" THEN "read" ELSE failed
    /\ pc' = "compile"
    /\ UNCHANGED <<args, bytecode, result, stderr, exit_code>>
    /\ UNCHANGED <<lambdaVars, ruleVars, newVars, traceVars>>

\* let bytecode = source.and_then(|s| compile(s).map_err(|e| e.to_string()))
Compile ==
    /\ pc = "compile"
    /\ \E r \in {Ok("bytecode")} \cup {Err(fmt_syntax(e)) : e \in CompileErrors} :
        /\ bytecode' = and_then(source, r)
        /\ failed' = IF source.tag = "Ok" /\ r.tag = "Err" THEN "compile" ELSE failed
    /\ pc' = "run"
    /\ UNCHANGED <<args, source, result, stderr, exit_code>>
    /\ UNCHANGED <<lambdaVars, ruleVars, newVars, traceVars>>

\* let result = bytecode.and_then(|b| run(b).map_err(|e| e.to_string()))
Run ==
    /\ pc = "run"
    /\ \E r \in {Ok("unit")} \cup {Err(fmt_trace(t)) : t \in RunErrors} :
        /\ result' = and_then(bytecode, r)
        /\ failed' = IF bytecode.tag = "Ok" /\ r.tag = "Err" THEN "run" ELSE failed
    /\ pc' = "report"
    /\ UNCHANGED <<args, source, bytecode, stderr, exit_code>>
    /\ UNCHANGED <<lambdaVars, ruleVars, newVars, traceVars>>

\* if let Err(error) = result { eprintln!("{}", error); } and main returns.
Report ==
    /\ pc = "report"
    /\ stderr' = IF result.tag = "Err"
                 THEN Append(stderr, result.err \o <<Text("\n")>>)
                 ELSE stderr
    /\ exit_code' = ExitReturned
    /\ pc' = "exited"
    /\ UNCHANGED <<args, source, bytecode, result, failed>>
    /\ UNCHANGED <<lambdaVars, ruleVars, newVars, traceVars>>

(***************************************************************************)
(* Specifications.                                                         *)
(***************************************************************************)

\* index_data calls on a Lambda started from empty().
InitDataSpec == InitLambda /\ IdleBind /\ IdleMerge /\ IdleExpand /\ IdleOther

NextData == IndexData

SpecData == InitDataSpec /\ [][NextData]_vars

\* emit, emit_bytes, emit_span and index_span, without demit.
InitEmitSpec == InitLambda /\ IdleBind /\ IdleMerge /\ IdleExpand /\ IdleOther

NextEmit == Emit \/ EmitBytes \/ EmitSpan \/ IndexSpan

SpecEmit == InitEmitSpec /\ [][NextEmit]_vars

\* The code and span operations of a Lambda, demit included.
InitLambdaSpec == InitLambda /\ IdleBind /\ IdleMerge /\ IdleExpand /\ IdleOther

NextLambda == Emit \/ EmitBytes \/ EmitSpan \/ Demit \/ IndexSpan

SpecLambda == InitLambdaSpec /\ [][NextLambda]_vars

\* bind on a rule's pattern and a reversed form.
InitBindSpec == InitBind /\ IdleLambda /\ IdleMerge /\ IdleExpand /\ IdleOther

NextBind == Bind

SpecBind == InitBindSpec /\ [][NextBind]_vars

\* merge_safe on two maps of bindings.
InitMergeSpec == InitMerge /\ IdleLambda /\ IdleBind /\ IdleExpand /\ IdleOther

NextMerge == MergeSafe

SpecMerge == InitMergeSpec /\ [][NextMerge]_vars

\* expand on a macro body and the bindings of a match.
InitExpandSpec == InitExpand /\ IdleLambda /\ IdleBind /\ IdleMerge /\ IdleOther

NextExpand == Expand

SpecExpand == InitExpandSpec /\ [][NextExpand]_vars

\* Rule::new on a pattern and a body.
InitNewSpec ==
    InitNew /\ IdleLambda /\ IdleBind /\ IdleMerge /\ IdleExpand /\ IdleTrace /\ IdleMain

NextNew == New

SpecNew == InitNewSpec /\ [][NextNew]_vars

\* A Trace built by Trace::error, extended by add_context and formatted.
InitTraceSpec ==
    InitTrace /\ IdleLambda /\ IdleBind /\ IdleMerge /\ IdleExpand /\ IdleNew /\ IdleMain

NextTrace == AddContext \/ Format

SpecTrace == InitTraceSpec /\ [][NextTrace]_vars

\* One run of the driver.
InitMainSpec ==
    InitMain /\ IdleLambda /\ IdleBind /\ IdleMerge /\ IdleExpand /\ IdleNew /\ IdleTrace

NextMain == Usage \/ ReadFile \/ Compile \/ Run \/ Report

SpecMain == InitMainSpec /\ [][NextMain]_vars

(***************************************************************************)
(* Claims about Lambda.                                                    *)
(***************************************************************************)

Max(S) == CHOOSE m \in S : \A x \in S : x <= m

\* The entries of spans recorded at or before offset off.
AtOrBefore(off) == {k \in 1..Len(spans) : spans[k].offset <= off}

\* An entry is dangling when demit has taken the code below its offset.
Dangling(k) == spans[k].offset > Len(code)

\* C1: after any sequence of index_data calls from empty(), no two entries
\* of constants are equal, the index returned by the last call holds a value
\* equal to its argument, and it is the index the first call on that value
\* returned (indices are stable).
C1_ConstantsUniqueStable ==
    /\ \A i, j \in 1..Len(constants) : constants[i] = constants[j] => i = j
    /\ data # NoData =>
        /\ ret \in 0..(Len(constants) - 1)
        /\ constants[ret + 1] = data
        /\ ret = first[data]
    /\ \A d \in DataValues :
        first[d] # -1 => first[d] < Len(constants) /\ constants[first[d] + 1] = d

\* Integer(7), String("x"), Integer(7): the third call returns 0 again.
C1_Witness ==
    /\ Len(constants) >= 2
    /\ data = constants[1]
    /\ ret = 0

\* C2: without demit, index_span(offset) returns for every offset the span
\* of the last-pushed entry whose recorded offset is <= offset, and the
\* empty span when there is none; the last index_span call returned so.
C2_IndexSpanMostRecent ==
    /\ \A off \in Offsets :
        span_of(spans, off) =
            IF AtOrBefore(off) = {} THEN SpanEmpty
            ELSE spans[Max(AtOrBefore(off))].span
    /\ query # -1 =>
        found = IF AtOrBefore(query) = {} THEN 0 ELSE Max(AtOrBefore(query))

\* Two entries share the queried offset and index_span returned the later.
C2_Witness ==
    /\ Len(spans) = 2
    /\ spans[1].offset = spans[2].offset
    /\ spans[1].span # spans[2].span
    /\ query = spans[2].offset
    /\ found = 2

\* C3: in every state reachable by emit, emit_bytes, emit_span and demit,
\* spans is sorted non-decreasing by recorded offset.
C3_SpansSorted ==
    \A i, j \in 1..Len(spans) : i < j => spans[i].offset <= spans[j].offset

\* C4 as stated: for every offset, index_span never returns the span of an
\* entry whose recorded offset is greater than the code length.
C4_NeverDangling ==
    \A off \in Offsets :
        best(spans, off) # 0 => ~Dangling(best(spans, off))

\* C4 amended: for every offset not greater than the code length,
\* index_span never returns the span of a dangling entry.
C4_InRangeNeverDangling ==
    /\ \A off \in 0..Len(code) :
        best(spans, off) # 0 => ~Dangling(best(spans, off))
    /\ (query # -1 /\ query <= Len(code) /\ found # 0) => ~Dangling(found)

\* demit left a dangling entry, and index_span within the code returned
\* the entry before it.
C4_Witness ==
    /\ \E k \in 1..Len(spans) : Dangling(k)
    /\ query # -1
    /\ query <= Len(code)
    /\ found # 0

(***************************************************************************)
(* Claims about bind and merge_safe.                                       *)
(***************************************************************************)

\* The Keyword and Symbol leaves of an argument pattern, left to right.
RECURSIVE Leaves(_), LeavesOfAll(_, _)
Leaves(pat) ==
    IF pat.type = "ArgGroup" THEN LeavesOfAll(pat.pats, 1) ELSE <<pat>>

LeavesOfAll(pats, k) ==
    IF k > Len(pats) THEN <<>> ELSE Leaves(pats[k]) \o LeavesOfAll(pats, k + 1)

IsLeaf(pat) == pat.type \in {"Keyword", "ArgSymbol"}

\* Two Symbol leaves of the sequence ls carry the same name.
SharesName(ls) ==
    \E i, j \in 1..Len(ls) :
        /\ i < j
        /\ ls[i].type = "ArgSymbol"
        /\ ls[j].type = "ArgSymbol"
        /\ ls[i].name = ls[j].name

\* The node is a Symbol s with remove_tag(s) = k.
KeywordMatch(k, node) == node.type = "Symbol" /\ remove_tag(node.name) = k

\* Some Keyword among the first n leaves of ls holds a node of f that does
\* not match it.
KeywordFails(ls, f, n) ==
    \E i \in 1..n :
        ls[i].type = "Keyword" /\ i <= Len(f) /\ ~KeywordMatch(ls[i].name, f[i])

\* The bindings of each Symbol leaf of ls to the node of f at its position.
Positional(ls, f) ==
    [n \in {ls[i].name : i \in {i \in 1..Len(ls) : ls[i].type = "ArgSymbol"}} |->
        f[CHOOSE i \in 1..Len(ls) : ls[i].type = "ArgSymbol" /\ ls[i].name = n]]

FlatDistinct ==
    /\ arg_pat.type = "ArgGroup"
    /\ \A i \in 1..Len(arg_pat.pats) : IsLeaf(arg_pat.pats[i])
    /\ ~SharesName(arg_pat.pats)

\* C5: for a Group of Keyword and Symbol sub-patterns with distinct Symbol
\* names, bind returns None if the form runs out of nodes or a Keyword
\* position holds a node that is not a Symbol s with remove_tag(s) = k, and
\* otherwise Some(Ok(b)), b binding exactly each Symbol name to the form
\* node at the same left-to-right position.
C5_BindFlatGroup ==
    (bind_out # Pending /\ FlatDistinct) =>
        IF \/ Len(form) < Len(arg_pat.pats)
           \/ KeywordFails(arg_pat.pats, form, Len(arg_pat.pats))
        THEN bind_out = None
        ELSE bind_out = SomeOk(Positional(arg_pat.pats, form))

\* [a, Keyword(t), b] on a form whose second node is a tagged t: a and b
\* are bound to the first and third node.
C5_Witness ==
    /\ FlatDistinct
    /\ Len(arg_pat.pats) = 3
    /\ arg_pat.pats[2].type = "Keyword"
    /\ Len(form) = 3
    /\ form[2].type = "Symbol"
    /\ form[2].name # arg_pat.pats[2].name
    /\ bind_out.tag = "Ok"
    /\ DOMAIN bind_out.bindings = {Str1("a"), Str1("b")}
    /\ bind_out.bindings[Str1("a")] = form[1]
    /\ bind_out.bindings[Str1("b")] = form[3]

DuplicateGroup == arg_pat.type = "ArgGroup" /\ SharesName(Leaves(arg_pat))

\* The form has a node for every leaf and matches every Keyword leaf.
FormFits ==
    /\ Len(form) >= Len(Leaves(arg_pat))
    /\ ~KeywordFails(Leaves(arg_pat), form, Len(Leaves(arg_pat)))

\* C6 as stated: bind on a Group in which a Symbol name appears twice
\* (directly or in nested Groups) returns Some(Err(..)).
C6_DuplicateIsError ==
    (bind_out # Pending /\ DuplicateGroup) => bind_out.tag = "Err"

\* C6 amended: bind on such a Group never returns a successful binding; it
\* returns the collision error whenever the form has a node for every leaf
\* and matches every Keyword, and otherwise the error or None.
C6_DuplicateNeverBinds ==
    (bind_out # Pending /\ DuplicateGroup) =>
        /\ bind_out.tag \in {"Err", "None"}
        /\ FormFits =>
            /\ bind_out.tag = "Err"
            /\ bind_out.err.message = collision(SpanEmpty).message
        /\ bind_out.tag = "Err" => bind_out.err.message = collision(SpanEmpty).message

\* The second occurrence sits in a nested Group and bind returned the error.
C6_Witness ==
    /\ DuplicateGroup
    /\ \E i \in 1..Len(arg_pat.pats) :
        arg_pat.pats[i].type = "ArgGroup" /\ arg_pat.pats[i].pats # <<>>
    /\ ~SharesName(arg_pat.pats)
    /\ bind_out.tag = "Err"

\* The entries of base together with those of new.
Union(b, nw) ==
    [n \in DOMAIN b \cup DOMAIN nw |-> IF n \in DOMAIN b THEN b[n] ELSE nw[n]]

\* C10: merge_safe(base, new, def) returns Ok and leaves in base exactly
\* the old entries of base and the entries of new when their key sets are
\* disjoint, and returns the static error carrying def when they share a key.
C10_MergeSafe ==
    [][(merge_out = Pending /\ merge_out' # Pending) =>
          IF DOMAIN base \cap DOMAIN new = {}
          THEN merge_out'.tag = "Ok" /\ base' = Union(base, new)
          ELSE merge_out' = SomeErr(collision(def))]_vars

\* Two entries were merged into a base that held another.
C10_Witness ==
    /\ merge_out.tag = "Ok"
    /\ Cardinality(DOMAIN new) = 2
    /\ Cardinality(DOMAIN base) = 3
    /\ \A n \in DOMAIN new : base[n] = new[n]

(***************************************************************************)
(* Claims about expand.                                                    *)
(***************************************************************************)

\* The children of a node of an AST or of a pattern, in the order expand
\* visits them.
Kids(t) ==
    CASE t.type = "Block" -> t.forms
      [] t.type = "Form" -> t.branches
      [] t.type \in {"Tuple", "PatTuple"} -> t.tuple
      [] t.type \in {"Group", "Label", "FFI"} -> <<t.expression>>
      [] t.type = "Composition" -> <<t.argument, t.function>>
      [] t.type = "CSTPattern" -> <<t.pattern>>
      [] t.type = "ArgPattern" -> <<t.arg_pat>>
      [] t.type \in {"Assign", "Lambda"} -> <<t.pattern, t.expression>>
      [] t.type = "Syntax" -> <<t.arg_pat, t.expression>>
      [] t.type = "PatLabel" -> <<t.pattern>>
      [] t.type = "PatChain" -> t.chain
      [] t.type = "ArgGroup" -> t.pats
      [] OTHER -> <<>>

IsSymbol(t) == t.type \in {"Symbol", "PatSymbol", "ArgSymbol"}

\* The nodes of a tree, itself included.
RECURSIVE Nodes(_)
Nodes(t) == {t} \cup UNION {Nodes(Kids(t)[i]) : i \in 1..Len(Kids(t))}

Chars(name) == {name[i] : i \in 1..Len(name)}

Stamps == {Str1(StampChars[i]) : i \in 1..Len(StampChars)}

\* name is "<base>#<stamp>" for one of the stamps.
GeneratedFrom(name, b) == \E st \in Stamps : name = Tagged(b, st)

SameItem(x, y) == [x EXCEPT !.span = SpanEmpty] = [y EXCEPT !.span = SpanEmpty]

\* The bound tree as the kind of node that t is.
Viewed(t, bound) ==
    CASE t.type = "PatSymbol" -> ast_pattern_try_from(bound)
      [] t.type = "ArgSymbol" -> arg_pattern_try_from(bound)
      [] OTHER -> [err |-> "", item |-> bound]

\* Every occurrence in tin of a name unbound at call time has become, at
\* the same place of tout, the one symbol that bindings now records for it.
RECURSIVE SameFresh(_, _)
SameFresh(tin, tout) ==
    IF IsSymbol(tin)
    THEN \/ tin.name \in DOMAIN called
         \/ /\ tout.type = tin.type
            /\ tin.name \in DOMAIN bindings
            /\ bindings[tin.name].type = "Symbol"
            /\ tout.name = bindings[tin.name].name
            /\ GeneratedFrom(tout.name, tin.name)
    ELSE /\ tout.type = tin.type
         /\ Len(Kids(tout)) = Len(Kids(tin))
         /\ \A i \in 1..Len(Kids(tin)) : SameFresh(Kids(tin)[i], Kids(tout)[i])

\* C7: within one expand call, every occurrence of a name that is not
\* bound at call time (as AST, ASTPattern or ArgPattern Symbol) is replaced
\* by one and the same generated symbol name#stamp, which bindings records.
C7_SameGeneratedSymbol ==
    expand_out.tag = "Ok" => SameFresh(tree, expand_out.tree)

\* Block[Assign(a, 1), a] with no bindings: both a became the same a#stamp.
C7_Witness ==
    /\ called = EmptyBindings
    /\ tree.type = "Block"
    /\ Len(tree.forms) = 2
    /\ tree.forms[1].type = "Assign"
    /\ tree.forms[1].pattern.type = "PatSymbol"
    /\ tree.forms[2].type = "Symbol"
    /\ tree.forms[1].pattern.name = tree.forms[2].name
    /\ expand_out.tag = "Ok"
    /\ expand_out.tree.forms[1].pattern.name = expand_out.tree.forms[2].name
    /\ expand_out.tree.forms[2].name # tree.forms[2].name
    /\ remove_tag(expand_out.tree.forms[2].name) = tree.forms[2].name

\* The characters of the symbols of the tree and of the bindings at call
\* time: the keys and the symbols of the bound trees.
KnownChars ==
    UNION {Chars(t.name) : t \in {t \in Nodes(tree) : IsSymbol(t)}}
        \cup UNION {Chars(n) : n \in DOMAIN called}
        \cup UNION {UNION {Chars(t.name) : t \in {t \in Nodes(called[n]) : IsSymbol(t)}} :
                       n \in DOMAIN called}

\* name is base#tag with a tag that occurs in no symbol of t or of b.
UnseenTag(name, b) ==
    \E st \in Stamps : name = Tagged(b, st) /\ Chars(st) \cap KnownChars = {}

\* name is base#tag and was no key of b at call time.
UnboundTag(name, b) == GeneratedFrom(name, b) /\ name \notin DOMAIN called

\* Every symbol of tout is a bound tree spliced in or a generated symbol,
\* one with an unseen tag when `unseen` is asked for and one that was no
\* key otherwise.
RECURSIVE BoundOrFresh(_, _, _)
BoundOrFresh(tin, tout, unseen) ==
    IF IsSymbol(tin)
    THEN IF tin.name \in DOMAIN called
         THEN SameItem(tout, Viewed(tin, called[tin.name]).item)
         ELSE /\ tout.type = tin.type
              /\ IF unseen THEN UnseenTag(tout.name, tin.name)
                 ELSE UnboundTag(tout.name, tin.name)
    ELSE /\ tout.type = tin.type
         /\ Len(Kids(tout)) = Len(Kids(tin))
         /\ \A i \in 1..Len(Kids(tin)) :
             BoundOrFresh(Kids(tin)[i], Kids(tout)[i], unseen)

\* C8 as stated: after expand(t, b) every symbol of the output was bound
\* in b at call time or is named base#tag with a tag that occurs in no
\* symbol of t or of b.
C8_TagOccursNowhere ==
    expand_out.tag = "Ok" => BoundOrFresh(tree, expand_out.tree, TRUE)

\* C8 amended: after expand(t, b) every symbol of the output was bound in
\* b at call time or is named base#tag, base being the unbound name it
\* replaces, with base#tag no key of b.
C8_TagIsNoKey ==
    expand_out.tag = "Ok" => BoundOrFresh(tree, expand_out.tree, FALSE)

\* a#1 is a key and a is not: a was retried to a#2, next to a bound tree.
C8_Witness ==
    /\ Tagged(Str1("a"), Str1("1")) \in DOMAIN called
    /\ Str1("b") \in DOMAIN called
    /\ Str1("a") \notin DOMAIN called
    /\ tree.type = "Block"
    /\ Len(tree.forms) = 2
    /\ tree.forms[1].type = "Symbol"
    /\ tree.forms[1].name = Str1("b")
    /\ tree.forms[2].type = "Symbol"
    /\ tree.forms[2].name = Str1("a")
    /\ expand_out.tag = "Ok"
    /\ expand_out.tree.forms[1] = called[Str1("b")]
    /\ expand_out.tree.forms[2].name = Tagged(Str1("a"), Str1("2"))

\* What ends an expansion early, in the order expand meets it: a pattern
\* symbol (it fails when bound to a tree that is no pattern), and a Syntax
\* node once its arg_pat and its expression have been expanded.
RECURSIVE Events(_), EventsOfAll(_, _)
Events(t) ==
    IF t.type \in {"PatSymbol", "ArgSymbol"} THEN <<t>>
    ELSE IF t.type = "Syntax" THEN EventsOfAll(Kids(t), 1) \o <<t>>
    ELSE EventsOfAll(Kids(t), 1)

EventsOfAll(ts, k) ==
    IF k > Len(ts) THEN <<>> ELSE Events(ts[k]) \o EventsOfAll(ts, k + 1)

Ends(e) ==
    \/ e.type = "Syntax"
    \/ e.name \in DOMAIN called /\ Viewed(e, called[e.name]).err # ""

\* The first event that ends the expansion of the tree.
FirstEnd ==
    LET es == Events(tree) IN
    es[CHOOSE i \in 1..Len(es) : Ends(es[i]) /\ \A j \in 1..(i - 1) : ~Ends(es[j])]

HasSyntax == \E t \in Nodes(tree) : t.type = "Syntax"

\* C9 as stated: expanding a tree that contains a Syntax node returns the
\* static error "Nested macros ...", whatever the node holds and wherever
\* it sits.
C9_NestedMacrosAlways ==
    (expand_out # Pending /\ HasSyntax) =>
        expand_out.tag = "Err" /\ expand_out.err.message = NestedMacros

\* C9 amended: expanding a tree that contains a Syntax node never returns
\* Ok; the static error is "Nested macros ..." at the first Syntax node
\* expand finishes, unless a pattern symbol met before that is bound to a
\* tree that is no pattern: then it is that coercion error.
C9_NestedMacrosOrEarlier ==
    (expand_out # Pending /\ HasSyntax) =>
        /\ expand_out.tag # "Ok"
        /\ expand_out.tag = "Err" =>
            IF FirstEnd.type = "Syntax"
            THEN expand_out.err = SyntaxError(NestedMacros, FirstEnd.span)
            ELSE expand_out.err =
                     SyntaxError(Viewed(FirstEnd, called[FirstEnd.name]).err,
                                 FirstEnd.span)

\* A Syntax node after a symbol in a Block: the symbol was resolved, the
\* node's own pattern symbol was bound to a symbol, and expand refused.
C9_Witness ==
    /\ tree.type = "Block"
    /\ Len(tree.forms) = 2
    /\ tree.forms[1].type = "Symbol"
    /\ tree.forms[2].type = "Syntax"
    /\ tree.forms[2].arg_pat.type = "ArgGroup"
    /\ \E i \in 1..Len(tree.forms[2].arg_pat.pats) :
        /\ tree.forms[2].arg_pat.pats[i].type = "ArgSymbol"
        /\ tree.forms[2].arg_pat.pats[i].name \in DOMAIN called
    /\ expand_out.tag = "Err"
    /\ expand_out.err.message = NestedMacros

(***************************************************************************)
(* Claims about Rule::new and keywords.                                    *)
(***************************************************************************)

\* The names of the Keyword leaves among ls, in the order of ls.
KeywordNames(ls) ==
    LET ks == SelectSeq(ls, LAMBDA l : l.type = "Keyword") IN
    [i \in 1..Len(ks) |-> ks[i].name]

\* C11: keywords(p) lists every Keyword reached by descending into Groups,
\* left to right, duplicates kept; Rule::new(p, t) fails with a static error
\* if and only if keywords(p) is empty, and otherwise returns a Rule holding
\* p and t unchanged.
C11_RuleNewIffKeywords ==
    new_out # Pending =>
        /\ keywords(new_arg_pat) = KeywordNames(Leaves(new_arg_pat))
        /\ new_out.tag = "Err" <=> KeywordNames(Leaves(new_arg_pat)) = <<>>
        /\ new_out.tag = "Err" =>
            new_out.err = SyntaxError(NoPseudokeyword, new_arg_pat.span)
        /\ new_out.tag # "Err" => new_out = [tag |-> "Ok", rule |-> Rule(new_arg_pat, new_tree)]

\* A rule whose only pseudokeywords sit in a nested Group, one of them
\* twice, was built.
C11_Witness ==
    /\ new_out.tag = "Ok"
    /\ new_arg_pat.type = "ArgGroup"
    /\ \A i \in 1..Len(new_arg_pat.pats) : new_arg_pat.pats[i].type # "Keyword"
    /\ \E i, j \in 1..Len(keywords(new_arg_pat)) :
        i < j /\ keywords(new_arg_pat)[i] = keywords(new_arg_pat)[j]
    /\ new_out.rule.arg_pat = new_arg_pat
    /\ new_out.rule.tree = new_tree

(***************************************************************************)
(* Claims about the driver.                                                *)
(***************************************************************************)

\* The error of the step that failed is what was printed.
ErrorPrinted == stderr = <<result.err \o <<Text("\n")>>>>

\* C12: the driver ends with exit code zero when reading, compiling and
\* running the file all succeed, and with a non-zero exit code when one of
\* these steps fails, the error having been printed to standard error.
C12_ExitCodeTellsFailure ==
    (pc = "exited" /\ args # <<>>) =>
        IF failed = "none"
        THEN exit_code = 0 /\ result.tag = "Ok"
        ELSE exit_code # 0 /\ result.tag = "Err" /\ ErrorPrinted

(***************************************************************************)
(* Claims about Trace.                                                     *)
(***************************************************************************)

\* What was written starts with the header line, ends with the line
\* "Runtime {kind} Error: {message}", and has one excerpt per span between.
HeaderSpansError ==
    LET out == formatted.out
        n == Len(pushed) IN
    /\ Len(out) = n + 6
    /\ SubSeq(out, 1, 2) = <<Text(Traceback), Text("\n")>>
    /\ \A i \in 1..n : out[2 + i].piece = "excerpt"
    /\ SubSeq(out, n + 3, n + 6) =
           <<Text("Runtime "), Text(trace.kind), Text(" Error: "), Text(trace.message)>>

\* C13 as stated: the formatted output prints the header line, then the
\* spans ordered so that the last-pushed span appears last, then the line
\* "Runtime {kind} Error: {message}".
C13_LastPushedLast ==
    formatted # Pending =>
        /\ HeaderSpansError
        /\ \A i \in 1..Len(pushed) : formatted.out[2 + i] = Excerpt(pushed[i])

\* C13 amended: the formatted output prints the header line, then the spans
\* in the reverse of the order they were pushed in, the last-pushed span
\* first and the first span given to Trace::error last, then the line
\* "Runtime {kind} Error: {message}".
C13_LastPushedFirst ==
    formatted # Pending =>
        /\ HeaderSpansError
        /\ \A i \in 1..Len(pushed) :
            formatted.out[2 + i] = Excerpt(pushed[Len(pushed) + 1 - i])

\* A trace of three different spans was formatted: the span pushed last is
\* the first excerpt.
C13_Witness ==
    /\ formatted # Pending
    /\ Len(pushed) = 3
    /\ Cardinality({pushed[i] : i \in 1..3}) = 3
    /\ trace.spans = pushed
    /\ formatted.out[3] = Excerpt(pushed[3])
    /\ formatted.out[5] = Excerpt(pushed[1])

(***************************************************************************)
(* Claims about what bind leaves of the form.                              *)
(***************************************************************************)

\* C14: whenever bind returns Some(Ok(..)), it has removed from the end of
\* reversed_form exactly as many nodes as the pattern has Keyword and Symbol
\* leaves, and the elements that remain are the original leading elements,
\* unchanged and in the same order; hence the form is left empty exactly
\* when its length equals the pattern's leaf count.
C14_BindConsumesLeaves ==
    bind_out.tag = "Ok" =>
        LET n == Len(Leaves(arg_pat))
            original == Reverse(form) IN
        /\ n <= Len(original)
        /\ Len(reversed_form) = Len(original) - n
        /\ reversed_form = SubSeq(original, 1, Len(original) - n)
        /\ reversed_form = <<>> <=> Len(form) = n

\* A pattern with a nested Group and two leaves matched a form of three
\* nodes: the last node written is what remains.
C14_Witness ==
    /\ bind_out.tag = "Ok"
    /\ arg_pat.type = "ArgGroup"
    /\ \E i \in 1..Len(arg_pat.pats) :
        arg_pat.pats[i].type = "ArgGroup" /\ arg_pat.pats[i].pats # <<>>
    /\ Len(Leaves(arg_pat)) = 2
    /\ Len(form) = 3
    /\ reversed_form = <<form[3]>>

====
